---- MODULE Spec2Model ----
(***************************************************************************)
(* Model of the fxx tuple library: the type-level tuple algebra of         *)
(* fxx/meta/tuple.h (computed on element kinds) and the value-level        *)
(* functors of fxx/tuple/*.h (computed on live elements).                  *)
(*                                                                         *)
(* A kind is the static element type including its ownership category:    *)
(* "int" and "uptr" (std::unique_ptr<int>) are owned values, "int&" is a   *)
(* mutable reference and "int&&" a transient reference.  An element is a   *)
(* record [kind, val, addr]: an owned value carries its content in val     *)
(* (addr = NoAddr), a reference carries the address of a caller variable   *)
(* in addr (val = Null) and its content lives in mem.                      *)
(*                                                                         *)
(* Every value-level functor takes its tuple as Tuple&&.  All but dup_f   *)
(* are only well-formed for an rvalue tuple (std::tuple_element_t and      *)
(* std::tuple_size_v of a reference type do not exist) and the tests call  *)
(* every functor with one, so the model calls them with an rvalue tuple:   *)
(* std::get yields an xvalue for an owned element and constructing the     *)
(* result element moves from it.                                           *)
(* Moving an int copies it; moving a std::unique_ptr leaves Null behind.   *)
(* The order in which the two arguments of std::tuple_cat are evaluated is *)
(* unspecified, so a functor yields a SET of outcomes [res, tup]: the      *)
(* result tuple and the input tuple as the call leaves it.                 *)
(***************************************************************************)
EXTENDS Integers, Sequences, FiniteSets, TLC

\* Longest input tuple, longest pick index list, largest dup count.
MaxLen == 3
MaxPick == 2
MaxDup == 2

VARIABLES
    pc,     \* "call" before the operation, "done" after it
    tuple,  \* the tuple object handed to the operation (moved from by it)
    mem,    \* the caller's variables a, b that reference elements alias
    arg,    \* the tuple as it was when the call was made
    op,     \* the operation performed and its template / call arguments
    res,    \* the value-level result
    tres,   \* the type-level result for the same kinds and parameters
    calls   \* the invocations of the user function or predicate, in order

vars == <<pc, tuple, mem, arg, op, res, tres, calls>>

--------------------------------------------------------------------------
\* Kinds, elements and inputs

Null == 0
NoAddr == 0

ValueKinds == {"int", "uptr"}
RefKinds == {"int&", "int&&"}
Kinds == ValueKinds \cup RefKinds

\* int a = 1, b = 2;  and  make_tuple(1, 2)  of the test fixtures
Addrs == {1, 2}
Vals == {1, 2}
InitMem == [a \in Addrs |-> a]

IsRef(k) == k \in RefKinds

Elems ==
    {[kind |-> k, val |-> v, addr |-> NoAddr] : k \in ValueKinds, v \in Vals}
    \cup {[kind |-> k, val |-> Null, addr |-> a] : k \in RefKinds, a \in Addrs}

Tuples == UNION {[1..n -> Elems] : n \in 0..MaxLen}

KindsOf(t) == [i \in DOMAIN t |-> t[i].kind]

\* what reading through the element yields
Content(e, m) == IF IsRef(e.kind) THEN m[e.addr] ELSE e.val

Contents(t, m) == [i \in DOMAIN t |-> Content(t[i], m)]

--------------------------------------------------------------------------
\* Type-level algebra (fxx/meta/tuple.h), on sequences of kinds.
\* A composition that does not compile is the tuple Illformed.

Illformed == <<"ill-formed">>

\* as tuple_cat_impl, merging the first two tuples as std::tuple<Rs..., Ls...>
RECURSIVE tuple_cat_impl_swapped(_)
tuple_cat_impl_swapped(tuples) ==
    IF \E i \in DOMAIN tuples : tuples[i] = Illformed THEN Illformed
    ELSE IF Len(tuples) = 0 THEN <<>>
    ELSE IF Len(tuples) = 1 THEN tuples[1]
    ELSE tuple_cat_impl_swapped(<<tuples[2] \o tuples[1]>> \o SubSeq(tuples, 3, Len(tuples)))

RECURSIVE tuple_cat_impl(_)
tuple_cat_impl(tuples) ==
    IF \E i \in DOMAIN tuples : tuples[i] = Illformed THEN Illformed
    ELSE IF Len(tuples) = 0 THEN <<>>
    ELSE IF Len(tuples) = 1 THEN tuples[1]
    ELSE tuple_cat_impl(<<tuples[1] \o tuples[2]>> \o SubSeq(tuples, 3, Len(tuples)))

\* std::tuple_element_t<I, Tuple>, wrapped in std::tuple<>
tuple_element_t(i, t) ==
    IF t = Illformed \/ i >= Len(t) THEN Illformed ELSE <<t[i + 1]>>

\* as tuple_flip_impl, concatenating the head in front of the flipped rest
RECURSIVE tuple_flip_impl_front(_)
tuple_flip_impl_front(t) ==
    IF t = <<>> THEN <<>>
    ELSE LET prefix == tuple_flip_impl_front(Tail(t))
         IN  tuple_cat_impl(<<<<Head(t)>>, prefix>>)

RECURSIVE tuple_flip_impl(_)
tuple_flip_impl(t) ==
    IF t = <<>> THEN <<>>
    ELSE LET prefix == tuple_flip_impl(Tail(t))
         IN  tuple_cat_impl(<<prefix, <<Head(t)>>>>)

RECURSIVE tuple_pick_impl(_, _)
tuple_pick_impl(t, ns) ==
    IF ns = <<>> THEN <<>>
    ELSE LET suffix == tuple_pick_impl(t, Tail(ns))
         IN  tuple_cat_impl(<<tuple_element_t(Head(ns), t), suffix>>)

RECURSIVE tuple_dup_impl(_, _)
tuple_dup_impl(n, t) ==
    IF n = 0 THEN <<>>
    ELSE LET suffix == tuple_dup_impl(n - 1, t)
         IN  tuple_cat_impl(<<t, suffix>>)

tuple_skip_one(t) ==
    IF t = Illformed \/ t = <<>> THEN Illformed ELSE Tail(t)

RECURSIVE tuple_skip_impl(_, _)
tuple_skip_impl(n, t) ==
    IF n = 0 THEN t
    ELSE LET prefix == tuple_skip_one(t)
         IN  IF prefix = Illformed THEN Illformed
             ELSE tuple_skip_impl(n - 1, prefix)

tuple_take_one(t) ==
    IF t = Illformed \/ t = <<>> THEN Illformed ELSE <<Head(t)>>

\* as tuple_take_impl, concatenating the taken head behind the rest
RECURSIVE tuple_take_impl_behind(_, _)
tuple_take_impl_behind(n, t) ==
    IF n = 0 THEN <<>>
    ELSE LET prefix == tuple_take_one(t)
             suffix == tuple_skip_one(t)
         IN  IF suffix = Illformed THEN Illformed
             ELSE tuple_cat_impl(<<tuple_take_impl_behind(n - 1, suffix), prefix>>)

RECURSIVE tuple_take_impl(_, _)
tuple_take_impl(n, t) ==
    IF n = 0 THEN <<>>
    ELSE LET prefix == tuple_take_one(t)
             suffix == tuple_skip_one(t)
         IN  IF suffix = Illformed THEN Illformed
             ELSE tuple_cat_impl(<<prefix, tuple_take_impl(n - 1, suffix)>>)

tuple_cat_t(tuples) == tuple_cat_impl(tuples)

\* Fn<T> for the unary templates the tuple is mapped with
MapInst(Fn, k) ==
    CASE Fn = "std::remove_reference_t" ->
             (IF k = "int&" \/ k = "int&&" THEN "int" ELSE k)
      [] Fn = "std::add_lvalue_reference_t" ->
             (IF k = "int" \/ k = "int&" \/ k = "int&&" THEN "int&" ELSE k \o "&")

\* std::tuple<Fn<Ts>...>
tuple_map_impl(Fn, t) == [i \in DOMAIN t |-> MapInst(Fn, t[i])]

tuple_map_t(Fn, t) == tuple_map_impl(Fn, t)

tuple_flip_t(t) == tuple_flip_impl(t)
tuple_pick_t(t, ns) == tuple_pick_impl(t, ns)
tuple_dup_t(n, t) == tuple_dup_impl(n, t)
tuple_skip_t(n, t) == tuple_skip_impl(n, t)
\* a Tuple argument that itself does not compile leaves no instantiation
tuple_take_t(n, t) == IF t = Illformed THEN Illformed ELSE tuple_take_impl(n, t)
\* as tuple_slice_t, without taking Length elements of the skipped tuple
tuple_slice_t_untaken(start, length, t) == tuple_skip_t(start, t)

tuple_slice_t(start, length, t) == tuple_take_t(length, tuple_skip_t(start, t))

--------------------------------------------------------------------------
\* Index sequence algebra (fxx/meta/indices.h), on sequences of indices

\* std::make_index_sequence<N> = std::index_sequence<0, 1, ..., N-1>
make_index_sequence(n) == [i \in 1..n |-> i - 1]

\* as shift_index_impl, multiplying instead of adding
shift_index_impl_scaled(Shift) == [I \in Nat |-> I * Shift]

\* shift_index_impl<Shift>::type<I>::value, as a function of I
shift_index_impl(Shift) == [I \in Nat |-> I + Shift]

\* std::index_sequence<Fn<Indices>::value...>
map_index_sequence_impl(Fn, ns) == [i \in DOMAIN ns |-> Fn[ns[i]]]

shift_index_sequence_t(Shift, ns) ==
    map_index_sequence_impl(shift_index_impl(Shift), ns)

make_index_range(Start, Length) ==
    shift_index_sequence_t(Start, make_index_sequence(Length))

--------------------------------------------------------------------------
\* Value-level structural functors (fxx/tuple/pick.h, dup.h, flip.h,
\* skip.h, take.h, slice.h)

IllformedV == <<[kind |-> "ill-formed", val |-> Null, addr |-> NoAddr]>>

\* the object a move leaves behind: an int keeps its value, a
\* std::unique_ptr becomes null, a reference element is only rebound
MovedFrom(e) ==
    IF e.kind = "uptr" THEN [e EXCEPT !.val = Null] ELSE e

\* as Construct, but reading element 0 whatever the index
Construct_zero(t, i) ==
    [elem |-> [t[1] EXCEPT !.kind = t[i + 1].kind],
     tup |-> [t EXCEPT ![1] = MovedFrom(t[1])]]

\* as Construct, but building the element with std::make_tuple, which decays
\* a reference to an owned value
Construct_decay(t, i) ==
    [elem |-> IF IsRef(t[i + 1].kind)
              THEN [kind |-> "int", val |-> t[i + 1].addr, addr |-> NoAddr]
              ELSE t[i + 1],
     tup |-> [t EXCEPT ![i + 1] = MovedFrom(t[i + 1])]]

\* std::tuple<std::tuple_element_t<I, Tuple>>(std::get<I>(std::forward<Tuple>(tuple)))
Construct(t, i) ==
    [elem |-> t[i + 1], tup |-> [t EXCEPT ![i + 1] = MovedFrom(t[i + 1])]]

\* std::tuple_cat(head, o.res) around the recursion's outcome o
CatOutcome(e, o, t) ==
    IF o.res = IllformedV THEN o ELSE [res |-> <<e>> \o o.res, tup |-> t]

RECURSIVE pick_f(_, _)
pick_f(ns, t) ==
    IF ns = <<>> THEN {[res |-> <<>>, tup |-> t]}
    ELSE IF Head(ns) >= Len(t) THEN {[res |-> IllformedV, tup |-> t]}
    ELSE LET headFirst ==
                 LET c == Construct(t, Head(ns))
                 IN  {CatOutcome(c.elem, o, o.tup) : o \in pick_f(Tail(ns), c.tup)}
             tailFirst ==
                 {LET c == Construct(o.tup, Head(ns))
                  IN  CatOutcome(c.elem, o, c.tup) : o \in pick_f(Tail(ns), t)}
         IN  headFirst \cup tailFirst

\* flip_f::operator()<Tuple, N>
RECURSIVE flip_f(_, _)
flip_f(t, N) ==
    IF N = 0 THEN {[res |-> <<>>, tup |-> t]}
    ELSE LET headFirst ==
                 LET c == Construct(t, N - 1)
                 IN  {CatOutcome(c.elem, o, o.tup) : o \in flip_f(c.tup, N - 1)}
             tailFirst ==
                 {LET c == Construct(o.tup, N - 1)
                  IN  CatOutcome(c.elem, o, c.tup) : o \in flip_f(t, N - 1)}
         IN  headFirst \cup tailFirst

\* std::tuple_cat(std::forward<Tuple>(tuple), rest): the recursion's result
\* is materialised first, then every element of tuple is moved into the
\* concatenation
RECURSIVE dup_f(_, _)
dup_f(N, t) ==
    IF N = 0 THEN {[res |-> <<>>, tup |-> t]}
    ELSE {[res |-> o.tup \o o.res,
           tup |-> [i \in DOMAIN o.tup |-> MovedFrom(o.tup[i])]]
          : o \in dup_f(N - 1, t)}

\* as skip_idx_range_t, with the length of the whole tuple
skip_idx_range_t_whole(N, t) == make_index_range(N, Len(t))

\* idx_range_t of skip_f<N>::operator()<Tuple>
skip_idx_range_t(N, t) == make_index_range(N, Len(t) - N)

\* idx_seq_t of take_f<N>::operator()
take_idx_seq_t(N) == make_index_sequence(N)

\* idx_range_t of slice_f<Start, Length>::operator()
slice_idx_range_t(Start, Length) == make_index_range(Start, Length)

\* as skip_f, with the index range left unshifted
skip_f_unshifted(N, t) ==
    IF N > Len(t) THEN {[res |-> IllformedV, tup |-> t]}
    ELSE pick_f(make_index_sequence(Len(t) - N), t)

\* std::tuple_size_v<Tuple> - N is unsigned: beyond the size it wraps to
\* an index range no build can instantiate
skip_f(N, t) ==
    IF N > Len(t) THEN {[res |-> IllformedV, tup |-> t]}
    ELSE pick_f(skip_idx_range_t(N, t), t)

take_f(N, t) == pick_f(take_idx_seq_t(N), t)

\* as slice_f, with the two template arguments of make_index_range swapped
slice_f_swapped(Start, Length, t) == pick_f(make_index_range(Length, Start), t)

slice_f(Start, Length, t) == pick_f(slice_idx_range_t(Start, Length), t)

--------------------------------------------------------------------------
\* Type-level search and reduction (fxx/meta/tuple.h, fxx/meta/functional.h)

\* partial<Target, First>::type<Last> = Target<First, Last>
partial(Target, First) == [p |-> Target, T |-> First]

\* the predicate templates the library is instantiated with
TPreds ==
    {partial("tautology", ""), partial("contradiction", ""),
     partial("is_reference", "")}
    \cup {partial("is_same", k) : k \in Kinds}

\* Pred<Head>::value
PredValue(Pred, k) ==
    CASE Pred.p = "tautology" -> TRUE
      [] Pred.p = "contradiction" -> FALSE
      [] Pred.p = "is_reference" -> IsRef(k)
      [] Pred.p = "is_same" -> Pred.T = k

\* as any_impl, with the trivial case deriving from std::true_type
RECURSIVE any_impl_trivially_true(_, _)
any_impl_trivially_true(Pred, Args) ==
    IF Args = <<>> THEN TRUE
    ELSE IF PredValue(Pred, Head(Args)) THEN TRUE
    ELSE any_impl_trivially_true(Pred, Tail(Args))

RECURSIVE any_impl(_, _)
any_impl(Pred, Args) ==
    IF Args = <<>> THEN FALSE
    ELSE IF PredValue(Pred, Head(Args)) THEN TRUE
    ELSE any_impl(Pred, Tail(Args))

RECURSIVE all_impl(_, _)
all_impl(Pred, Args) ==
    IF Args = <<>> THEN TRUE
    ELSE IF PredValue(Pred, Head(Args)) THEN all_impl(Pred, Tail(Args))
    ELSE FALSE

any_v(Pred, Args) == any_impl(Pred, Args)

all_v(Pred, Args) == all_impl(Pred, Args)

index_helper(Value, Offset) == [value |-> Value, index |-> Offset]

\* as meta_first_impl, with the abort case reporting the index 0
RECURSIVE meta_first_impl_reset(_, _, _)
meta_first_impl_reset(Pred, Offset, t) ==
    IF t = <<>> THEN index_helper(FALSE, 0)
    ELSE IF PredValue(Pred, Head(t)) THEN index_helper(TRUE, Offset)
    ELSE meta_first_impl_reset(Pred, Offset + 1, Tail(t))

RECURSIVE meta_first_impl(_, _, _)
meta_first_impl(Pred, Offset, t) ==
    IF t = <<>> THEN index_helper(FALSE, Offset)
    ELSE IF PredValue(Pred, Head(t)) THEN index_helper(TRUE, Offset)
    ELSE meta_first_impl(Pred, Offset + 1, Tail(t))

meta_first(Pred, t) == meta_first_impl(Pred, 0, t)

meta_find(T, t) == meta_first(partial("is_same", T), t)

\* the instantiation Fn<A, B> of a binary template
Inst(Fn, A, B) == Fn \o "<" \o A \o "," \o B \o ">"

\* tuple_reduce_impl<Fn, 0, Tuple> has no abort case: N-1 wraps around
RECURSIVE tuple_reduce_impl(_, _, _)
tuple_reduce_impl(Fn, N, t) ==
    IF N = 0 THEN "ill-formed"
    ELSE IF N = 1 THEN t[1]
    ELSE LET pred == tuple_reduce_impl(Fn, N - 1, t)
         IN  Inst(Fn, pred, t[N])

\* as tuple_filter_impl, concatenating the current element in front
RECURSIVE tuple_filter_impl_front(_, _, _)
tuple_filter_impl_front(Pred, N, t) ==
    IF N = 0 THEN <<>>
    ELSE LET pred == tuple_filter_impl_front(Pred, N - 1, t)
             cur == t[N]
             flt == IF PredValue(Pred, cur) THEN <<cur>> ELSE <<>>
         IN  tuple_cat_impl(<<flt, pred>>)

RECURSIVE tuple_filter_impl(_, _, _)
tuple_filter_impl(Pred, N, t) ==
    IF N = 0 THEN <<>>
    ELSE LET pred == tuple_filter_impl(Pred, N - 1, t)
             cur == t[N]
             flt == IF PredValue(Pred, cur) THEN <<cur>> ELSE <<>>
         IN  tuple_cat_impl(<<pred, flt>>)

tuple_filter_t(Pred, t) == tuple_filter_impl(Pred, Len(t), t)

tuple_reduce_t(Fn, t) == tuple_reduce_impl(Fn, Len(t), t)

tuple_fold_t(Fn, Init, t) == tuple_reduce_t(Fn, tuple_cat_impl(<<<<Init>>, t>>))

--------------------------------------------------------------------------
\* Value-level reduction and search (fxx/tuple/reduce.h, fold.h, first.h,
\* find.h)

\* the binary functions without side effect handed to reduce and fold:
\* std::minus of the tests and x => 2x + y, which tells every argument
\* order apart
PureFns == {"minus", "lin"}

\* and the ones that write through an argument:
\* "acc"   [](auto&& x, auto&& y) -> decltype(x) { x += y; return forward<decltype(x)>(x); }
\* "drain" [](auto&& x, auto&& y) { auto v = x + y; y = 0; return v; }
Fns == PureFns \cup {"acc", "drain"}

\* fn(x, y), x > k and value == x are only declared for int operands: a
\* call that hands them a std::unique_ptr element does not compile
Arithmetic(t) == \A i \in DOMAIN t : t[i].kind # "uptr"

\* the functions that write are handed references, as in the tests
References(t) == \A i \in DOMAIN t : IsRef(t[i].kind)

\* fn(first, rest[1]), fn(fn(...), rest[2]), ... compile and leave no
\* reference to a temporary: "acc" returns its first argument, which must
\* be a reference to a caller variable, "drain" writes its second one
Callable(fn, first, rest) ==
    CASE fn \in PureFns -> Arithmetic(<<first>> \o rest)
      [] fn = "acc" -> IsRef(first.kind) /\ Arithmetic(rest)
      [] fn = "drain" -> Arithmetic(<<first>>) /\ References(rest)

Value(v) == [kind |-> "int", val |-> v, addr |-> NoAddr]

\* the init argument of fold: an int prvalue, or a caller variable (Init
\* is then deduced as int& and fold_impl<0> returns that reference)
Inits ==
    {Value(v) : v \in Vals}
    \cup {[kind |-> "int&", val |-> Null, addr |-> a] : a \in Addrs}

\* fn(x, y): what it returns and the memory it leaves
ApplyFn(fn, x, y, m) ==
    CASE fn = "minus" -> [ret |-> Value(Content(x, m) - Content(y, m)), mem |-> m]
      [] fn = "lin" -> [ret |-> Value(2 * Content(x, m) + Content(y, m)), mem |-> m]
      [] fn = "acc" ->
             [ret |-> x,
              mem |-> [m EXCEPT ![x.addr] = Content(x, m) + Content(y, m)]]
      [] fn = "drain" ->
             [ret |-> Value(Content(x, m) + Content(y, m)),
              mem |-> [m EXCEPT ![y.addr] = 0]]

\* as reduce_impl, with a 0-tuple reducing to a value-initialised int
RECURSIVE reduce_impl_unchecked(_, _, _, _)
reduce_impl_unchecked(N, fn, t, m) ==
    IF N = 0 THEN [ret |-> Value(0), tup |-> t, mem |-> m, calls |-> <<>>]
    ELSE IF N = 1 THEN
        LET c == Construct(t, 0)
        IN  [ret |-> c.elem, tup |-> c.tup, mem |-> m, calls |-> <<>>]
    ELSE LET o == reduce_impl_unchecked(N - 1, fn, t, m)
             y == o.tup[N]
             r == ApplyFn(fn, o.ret, y, o.mem)
         IN  [ret |-> r.ret, tup |-> o.tup, mem |-> r.mem,
              calls |-> Append(o.calls, [fst |-> o.ret, snd |-> y, at |-> N - 1])]

\* as reduce_impl, handing fn its two arguments in the opposite order
RECURSIVE reduce_impl_swapped(_, _, _, _)
reduce_impl_swapped(N, fn, t, m) ==
    IF N = 0 THEN [ret |-> IllformedV[1], tup |-> t, mem |-> m, calls |-> <<>>]
    ELSE IF N = 1 THEN
        LET c == Construct(t, 0)
        IN  [ret |-> c.elem, tup |-> c.tup, mem |-> m, calls |-> <<>>]
    ELSE LET o == reduce_impl_swapped(N - 1, fn, t, m)
             y == o.tup[N]
             r == ApplyFn(fn, y, o.ret, o.mem)
         IN  [ret |-> r.ret, tup |-> o.tup, mem |-> r.mem,
              calls |-> Append(o.calls, [fst |-> y, snd |-> o.ret, at |-> N - 1])]

\* outcome of a reduction: the result element, the input tuple and the
\* memory as the call leaves them, and the calls of fn in order
RECURSIVE reduce_impl(_, _, _, _)
reduce_impl(N, fn, t, m) ==
    IF N = 0 THEN [ret |-> IllformedV[1], tup |-> t, mem |-> m, calls |-> <<>>]
    ELSE IF N = 1 THEN
        LET c == Construct(t, 0)
        IN  [ret |-> c.elem, tup |-> c.tup, mem |-> m, calls |-> <<>>]
    ELSE LET o == reduce_impl(N - 1, fn, t, m)
             y == o.tup[N]
             r == ApplyFn(fn, o.ret, y, o.mem)
         IN  [ret |-> r.ret, tup |-> o.tup, mem |-> r.mem,
              calls |-> Append(o.calls, [fst |-> o.ret, snd |-> y, at |-> N - 1])]

reduce_f(fn, t, m) == reduce_impl(Len(t), fn, t, m)

\* as fold_impl, handing fn the init value again on every call instead of
\* the result of the call before
RECURSIVE fold_impl_restart(_, _, _, _, _)
fold_impl_restart(N, fn, init, t, m) ==
    IF N = 0 THEN [ret |-> init, tup |-> t, mem |-> m, calls |-> <<>>]
    ELSE LET o == fold_impl_restart(N - 1, fn, init, t, m)
             y == o.tup[N]
             r == ApplyFn(fn, init, y, o.mem)
         IN  [ret |-> r.ret, tup |-> o.tup, mem |-> r.mem,
              calls |-> Append(o.calls, [fst |-> init, snd |-> y, at |-> N - 1])]

\* as fold_impl, visiting the elements from the right end first
RECURSIVE fold_impl_right(_, _, _, _, _)
fold_impl_right(N, fn, init, t, m) ==
    IF N = 0 THEN [ret |-> init, tup |-> t, mem |-> m, calls |-> <<>>]
    ELSE LET o == fold_impl_right(N - 1, fn, init, Tail(t), m)
             y == t[1]
             r == ApplyFn(fn, o.ret, y, o.mem)
         IN  [ret |-> r.ret, tup |-> t, mem |-> r.mem,
              calls |-> Append(o.calls, [fst |-> o.ret, snd |-> y, at |-> N - 1])]

RECURSIVE fold_impl(_, _, _, _, _)
fold_impl(N, fn, init, t, m) ==
    IF N = 0 THEN [ret |-> init, tup |-> t, mem |-> m, calls |-> <<>>]
    ELSE LET o == fold_impl(N - 1, fn, init, t, m)
             y == o.tup[N]
             r == ApplyFn(fn, o.ret, y, o.mem)
         IN  [ret |-> r.ret, tup |-> o.tup, mem |-> r.mem,
              calls |-> Append(o.calls, [fst |-> o.ret, snd |-> y, at |-> N - 1])]

fold_f(fn, init, t, m) == fold_impl(Len(t), fn, init, t, m)

\* the unary functions handed to map: std::bind(std::multiplies{}, _1, 2),
\* which returns a new int, and the tests' lambda
\* [](auto&& x) -> decltype(x) { x *= 2; return forward<decltype(x)>(x); },
\* which writes through its argument and returns the same reference
UFns == {"times2", "dbl"}

\* fn(x): what it returns and the memory it leaves
ApplyU(fn, x, m) ==
    CASE fn = "times2" -> [ret |-> Value(2 * Content(x, m)), mem |-> m]
      [] fn = "dbl" -> [ret |-> x, mem |-> [m EXCEPT ![x.addr] = 2 * m[x.addr]]]

\* the orders in which the initialisers fn(std::get<Ns>(...))... of the
\* result tuple can be evaluated: every permutation of Ns
Orders(Ns) ==
    {[i \in DOMAIN Ns |-> Ns[p[i]]] :
        p \in {q \in [DOMAIN Ns -> DOMAIN Ns] :
                  \A i, j \in DOMAIN Ns : q[i] = q[j] => i = j}}

\* the calls of fn in the given order, and the memory they leave
RECURSIVE MapCalls(_, _, _, _)
MapCalls(fn, t, m, order) ==
    IF order = <<>> THEN [mem |-> m, calls |-> <<>>]
    ELSE LET r == ApplyU(fn, t[Head(order) + 1], m)
             o == MapCalls(fn, t, r.mem, Tail(order))
         IN  [mem |-> o.mem,
              calls |-> <<[at |-> Head(order), x |-> t[Head(order) + 1],
                           ret |-> r.ret]>> \o o.calls]

\* as map_impl, building the result with std::make_tuple, which decays a
\* returned reference to an owned copy
map_impl_decayed(fn, t, m, Ns) ==
    {LET o == MapCalls(fn, t, m, order)
     IN  [ret |-> [i \in DOMAIN Ns |->
                      Value(Content((CHOOSE c \in {o.calls[j] : j \in DOMAIN o.calls} :
                                         c.at = Ns[i]).ret, o.mem))],
          tup |-> t, mem |-> o.mem, calls |-> o.calls] : order \in Orders(Ns)}

\* as map_impl, storing the results in the order of their evaluation
map_impl_unordered(fn, t, m, Ns) ==
    {LET o == MapCalls(fn, t, m, order)
     IN  [ret |-> [i \in DOMAIN Ns |-> o.calls[i].ret],
          tup |-> t, mem |-> o.mem, calls |-> o.calls] : order \in Orders(Ns)}

\* outcomes of a mapping: the result tuple, the input tuple and the memory
\* as the call leaves them, and the calls of fn in order
map_impl(fn, t, m, Ns) ==
    {LET o == MapCalls(fn, t, m, order)
     IN  [ret |-> [i \in DOMAIN Ns |->
                      (CHOOSE c \in {o.calls[j] : j \in DOMAIN o.calls} :
                           c.at = Ns[i]).ret],
          tup |-> t, mem |-> o.mem, calls |-> o.calls] : order \in Orders(Ns)}

map_f(fn, t, m) == map_impl(fn, t, m, make_index_sequence(Len(t)))

\* the unary predicates handed to first: the tests' lambdas and the
\* comparison lambda of find_f
VPred(p, k) == [p |-> p, k |-> k]

VPreds == {VPred("true", 0), VPred("gt", 1)} \cup {VPred("eq", v) : v \in Vals \cup {3}}

\* static_cast<bool>(pred(x))
PredHolds(pred, x) ==
    CASE pred.p = "true" -> TRUE
      [] pred.p = "gt" -> x > pred.k
      [] pred.p = "eq" -> pred.k = x

nullopt == [has |-> FALSE, value |-> 0]
optional(i) == [has |-> TRUE, value |-> i]

\* as first_impl, testing the rest of the tuple after a match as well
RECURSIVE first_impl_exhaustive(_, _, _, _)
first_impl_exhaustive(Offset, pred, t, m) ==
    IF Len(t) <= Offset THEN [ret |-> nullopt, calls |-> <<>>]
    ELSE LET o == first_impl_exhaustive(Offset + 1, pred, t, m)
         IN  IF PredHolds(pred, Content(t[Offset + 1], m))
             THEN [ret |-> optional(Offset), calls |-> <<Offset>> \o o.calls]
             ELSE [ret |-> o.ret, calls |-> <<Offset>> \o o.calls]

\* as first_impl, searching the rest of the tuple before testing the element
RECURSIVE first_impl_last(_, _, _, _)
first_impl_last(Offset, pred, t, m) ==
    IF Len(t) <= Offset THEN [ret |-> nullopt, calls |-> <<>>]
    ELSE LET o == first_impl_last(Offset + 1, pred, t, m)
         IN  IF o.ret.has THEN o
             ELSE IF PredHolds(pred, Content(t[Offset + 1], m))
                  THEN [ret |-> optional(Offset), calls |-> <<Offset>>]
             ELSE [ret |-> nullopt, calls |-> <<Offset>> \o o.calls]

\* outcome of a search: the std::optional and the calls of pred in order
RECURSIVE first_impl(_, _, _, _)
first_impl(Offset, pred, t, m) ==
    IF Len(t) <= Offset THEN [ret |-> nullopt, calls |-> <<>>]
    ELSE IF PredHolds(pred, Content(t[Offset + 1], m))
         THEN [ret |-> optional(Offset), calls |-> <<Offset>>]
    ELSE LET o == first_impl(Offset + 1, pred, t, m)
         IN  [ret |-> o.ret, calls |-> <<Offset>> \o o.calls]

first_f(pred, t, m) == first_impl(0, pred, t, m)

\* as find_f, with the comparison value < x
find_f_less(value, t, m) == first_f(VPred("gt", value), t, m)

\* first([&value](auto&& x) { return value == x; }, tuple)
find_f(value, t, m) == first_f(VPred("eq", value), t, m)

--------------------------------------------------------------------------
\* The calls a program makes: one operation on one tuple

--------------------------------------------------------------------------
\* Detection idiom (fxx/meta/detect.h), on type names

\* detail::nonesuch, the type detected_t falls back to
nonesuch == "nonesuch"

\* the operand types of the static assertions
DetectTypes == {"has_no_it", "has_int_it", "has_char_it"}

\* the test templates: it_member_t<T> = decltype(std::declval<T>().it), and
\* std::void_t<...> = void, which is well-formed for every operand list
DetectOps == {"it_member_t", "std::void_t"}

\* Op<Args...>: the type it names, or "ill-formed" where substitution fails;
\* plus_t<Lhs, Rhs> and negate_t<Rhs> are the decltype of the built-in
\* operator on int and char operands (both promoted to int) and ill-formed
\* on a class without the operator
OpInst(Op, Args) ==
    CASE Op = "std::void_t" -> "void"
      [] Op \in {"plus_t", "negate_t"} ->
             IF \A i \in 1..Len(Args) : Args[i] \in {"int", "char"}
             THEN "int" ELSE "ill-formed"
      [] Op = "it_member_t" ->
             IF Len(Args) # 1 THEN "ill-formed"
             ELSE IF Args[1] = "has_int_it" THEN "int"
             ELSE IF Args[1] = "has_char_it" THEN "char"
             ELSE "ill-formed"

\* the partial specialisation on std::void_t<Op<Args...>> is chosen exactly
\* when Op<Args...> is well-formed
detect_impl(Default, Op, Args) ==
    IF OpInst(Op, Args) # "ill-formed"
    THEN [value_t |-> TRUE, type |-> OpInst(Op, Args)]
    ELSE [value_t |-> FALSE, type |-> Default]

is_detected(Op, Args) == detect_impl(nonesuch, Op, Args).value_t

detected_or_t(Default, Op, Args) == detect_impl(Default, Op, Args).type

detected_t(Op, Args) == detected_or_t(nonesuch, Op, Args)

\* std::is_same<detected_t<Op, Args...>, T>
is_detected_exact(T, Op, Args) == detected_t(Op, Args) = T

\* the expected types and operand lists the traits are instantiated with
DetectExpected == {"int", "char", "void", nonesuch}

DetectArgs == UNION {[1..n -> DetectTypes] : n \in 0..2}

\* the target types the convertible traits are asked about: the expected
\* types, a reference to detail::nonesuch, and the test struct Y with its
\* constructor Y(int) noexcept(false)
DetectTargets == DetectExpected \cup {"const nonesuch&", "Y"}

\* std::is_convertible<From, To>: void converts to void only; int and char
\* convert to each other, to Y through Y(int), and to nothing else here;
\* detail::nonesuch has its copy and move constructors deleted, so it does
\* not convert to itself but does bind to a reference to const nonesuch; a
\* reference to const nonesuch and a Y convert to their own type only
is_convertible(From, To) ==
    CASE From = "void" -> To = "void"
      [] From \in {"int", "char"} -> To \in {"int", "char", "Y"}
      [] From = nonesuch -> To = "const nonesuch&"
      [] From = "const nonesuch&" -> To = "const nonesuch&"
      [] From = "Y" -> To = "Y"
      [] OTHER -> FALSE

\* noexcept(static_cast<To>(std::declval<From>()))
NoexceptCast(From, To) == To # "Y"

\* is_nothrow_convertible_impl<From, To, std::is_convertible<From, To>::value>
is_nothrow_convertible_impl(From, To, convertible) ==
    IF convertible THEN NoexceptCast(From, To) ELSE FALSE

is_nothrow_convertible(From, To) ==
    is_nothrow_convertible_impl(From, To, is_convertible(From, To))

\* std::is_convertible<detected_t<Op, Args...>, To>
is_detected_convertible(To, Op, Args) ==
    is_convertible(detected_t(Op, Args), To)

\* std::is_nothrow_convertible<detected_t<Op, Args...>, To>
is_detected_nothrow_convertible(To, Op, Args) ==
    is_nothrow_convertible(detected_t(Op, Args), To)

--------------------------------------------------------------------------
\* Operator traits (fxx/meta/op.h): the per-operator info records and the
\* has_op_ traits built on the detection engine

\* operator_base<Operands...>: the record of an operator that is not detected
operator_base(Operands) ==
    [arity |-> Len(Operands),
     operand_types |-> Operands,
     is_detected |-> FALSE,
     is_nothrow |-> FALSE,
     is_convertible |-> [To \in DetectTargets |-> FALSE],
     is_nothrow_convertible |-> [To \in DetectTargets |-> FALSE]]

\* operator_info<Result, Operands...>: operator_base with the members of a
\* detected operator declared over it
operator_info(Result, Operands) ==
    [result_type |-> Result,
     is_detected |-> TRUE,
     is_convertible |-> [To \in DetectTargets |-> is_convertible(To, Result)],
     is_nothrow_convertible |->
         [To \in DetectTargets |-> is_nothrow_convertible(To, Result)]]
    @@ operator_base(Operands)

\* the callable targets op_call is asked about, named by their call
\* signature, and a class without a call operator
CallTargets ==
    {"void()", "int()", "void(int)", "int(int)", "void(int, int)",
     "int(int, int)", "not callable"}

\* the number of parameters of a target's call operator
Params(T) ==
    CASE T \in {"void()", "int()"} -> 0
      [] T \in {"void(int)", "int(int)"} -> 1
      [] T \in {"void(int, int)", "int(int, int)"} -> 2

\* the argument lists of the calls
CallArgs == UNION {[1..n -> {"int"}] : n \in 0..2}

\* call_t<T, Args...> = decltype(std::declval<T>()(std::declval<Args>()...))
call_t(T, Args) ==
    IF T = "not callable" THEN "ill-formed"
    ELSE IF Params(T) # Len(Args) THEN "ill-formed"
    ELSE IF T \in {"void()", "void(int)", "void(int, int)"} THEN "void"
    ELSE "int"

\* op_call_impl<Ops, Enable>: the partial specialisation on
\* <std::tuple<Target, Args...>, call_t<Target, Args...>> is chosen when the
\* call is well-formed and its type is the Enable argument; its base class
\* operator_info<op_call_impl<Target, Args...>, Target, Args...> names
\* op_call_impl with 1 + sizeof...(Args) arguments, which the two-parameter
\* template accepts only up to two
op_call_impl(Ops, Enable) ==
    LET Target == Head(Ops)
        Args == Tail(Ops)
    IN  IF call_t(Target, Args) # "ill-formed" /\ call_t(Target, Args) = Enable
        THEN IF Len(Ops) > 2 THEN [well_formed |-> FALSE]
             ELSE [well_formed |-> TRUE,
                   target_type |-> Target,
                   argument_types |-> Args,
                   argument_count |-> Len(Args)]
                  @@ operator_info("op_call_impl", Ops)
        ELSE [well_formed |-> TRUE,
              target_type |-> Ops[1],
              argument_types |-> tuple_skip_t(1, Ops),
              argument_count |-> Len(tuple_skip_t(1, Ops))]
             @@ operator_base(Ops)

\* op_call<Target, Args...> = op_call_impl<std::tuple<Target, Args...>, void>
op_call(Target, Args) == op_call_impl(<<Target>> \o Args, "void")

\* the operators of the catalog the traits are asked about: one defined by
\* FXX_META_OP_BINOP_T, one by FXX_META_OP_UNOP_T
Catalog == {"plus", "negate"}

\* the operand types: two arithmetic types and a class without operators
OperandKinds == {"int", "char", "has_no_it"}

\* template<class Lhs, class Rhs = Lhs> for a binary operator,
\* template<class Rhs> for a unary one
OperandLists(name) ==
    IF name = "plus" THEN UNION {[1..n -> OperandKinds] : n \in 1..2}
    ELSE [1..1 -> OperandKinds]

\* the operand list with the default argument Rhs = Lhs filled in
Defaulted(name, Operands) ==
    IF name = "plus" /\ Len(Operands) = 1 THEN <<Operands[1], Operands[1]>>
    ELSE Operands

\* op_name<Operands...>: operator_info over name_t<Operands...> where that
\* is well-formed, with is_nothrow the noexcept of the built-in operator,
\* operator_base otherwise
op_info(name, Operands) ==
    LET Ops == Defaulted(name, Operands)
        Result == OpInst(name \o "_t", Ops)
    IN  IF Result # "ill-formed"
        THEN [is_nothrow |-> TRUE] @@ operator_info(Result, Ops)
        ELSE operator_base(Ops)

\* has_op_convertible_name<To, Operands...>
has_op_convertible(name, To, Operands) ==
    is_detected_convertible(To, name \o "_t", Defaulted(name, Operands))

IdxLists(n) == UNION {[1..k -> 0..(n - 1)] : k \in 0..MaxPick}

\* the binary template of the static assertions, and the matcher kinds
TFns == {"std::tuple"}

FindVals == Vals \cup {3}

\* the argument lists tuple_cat_t is instantiated with: no tuple at all, and
\* the kinds of t handed over as one, two or three tuples (empty ones
\* included), as in tuple_cat_t<std::tuple<int>, std::tuple<>, std::tuple<int, int&>>
CatInputs(t) ==
    LET n == Len(t)
    IN  {<<>>, <<t>>}
        \cup {<<SubSeq(t, 1, c), SubSeq(t, c + 1, n)>> : c \in 0..n}
        \cup UNION {{<<SubSeq(t, 1, c), SubSeq(t, c + 1, d), SubSeq(t, d + 1, n)>>
                        : d \in c..n} : c \in 0..n}

NoOp == [name |-> "none"]

Init ==
    /\ pc = "call"
    /\ tuple \in Tuples
    /\ mem = InitMem
    /\ arg = tuple
    /\ op = NoOp
    /\ res = <<>>
    /\ tres = <<>>
    /\ calls = <<>>

\* a structural operation: the functor's outcome o and the type-level result;
\* skip, take and slice note the index list they hand to pick_f as idx
Structural(o, t, name) ==
    /\ pc' = "done"
    /\ tuple' = o.tup
    /\ res' = o.res
    /\ tres' = t
    /\ op' = name
    /\ UNCHANGED <<mem, arg, calls>>

Pick(ns) ==
    /\ pc = "call"
    /\ \E o \in pick_f(ns, tuple) :
           Structural(o, tuple_pick_t(KindsOf(tuple), ns), [name |-> "pick", ns |-> ns])

Flip ==
    /\ pc = "call"
    /\ \E o \in flip_f(tuple, Len(tuple)) :
           Structural(o, tuple_flip_t(KindsOf(tuple)), [name |-> "flip"])

Dup(N) ==
    /\ pc = "call"
    /\ \E o \in dup_f(N, tuple) :
           Structural(o, tuple_dup_t(N, KindsOf(tuple)), [name |-> "dup", n |-> N])

Skip(N) ==
    /\ pc = "call"
    /\ N <= Len(tuple)
    /\ \E o \in skip_f(N, tuple) :
           Structural(o, tuple_skip_t(N, KindsOf(tuple)),
                      [name |-> "skip", n |-> N,
                       idx |-> skip_idx_range_t(N, tuple)])

Take(N) ==
    /\ pc = "call"
    /\ N <= Len(tuple)
    /\ \E o \in take_f(N, tuple) :
           Structural(o, tuple_take_t(N, KindsOf(tuple)),
                      [name |-> "take", n |-> N, idx |-> take_idx_seq_t(N)])

\* inside the documented domain, or with Length = 0 and any Start
Slice(Start, Length) ==
    /\ pc = "call"
    /\ Start + Length <= Len(tuple) \/ Length = 0
    /\ \E o \in slice_f(Start, Length, tuple) :
           Structural(o, tuple_slice_t(Start, Length, KindsOf(tuple)),
                      [name |-> "slice", start |-> Start, len |-> Length,
                       idx |-> slice_idx_range_t(Start, Length)])

\* the unary templates the tuple is mapped with
TMaps == {"std::remove_reference_t", "std::add_lvalue_reference_t"}

\* a value-level reduction or search with outcome o
Valued(o, name) ==
    /\ pc' = "done"
    /\ res' = o.ret
    /\ calls' = o.calls
    /\ op' = name
    /\ tres' = <<>>
    /\ UNCHANGED arg

Reduce(fn) ==
    /\ pc = "call"
    /\ IF Len(tuple) <= 1 THEN TRUE ELSE Callable(fn, tuple[1], Tail(tuple))
    /\ LET o == reduce_f(fn, tuple, mem)
       IN  /\ Valued(o, [name |-> "reduce", fn |-> fn])
           /\ tuple' = o.tup
           /\ mem' = o.mem

Fold(fn, init) ==
    /\ pc = "call"
    /\ IF tuple = <<>> THEN TRUE ELSE Callable(fn, init, tuple)
    /\ LET o == fold_f(fn, init, tuple, mem)
       IN  /\ Valued(o, [name |-> "fold", fn |-> fn, init |-> init])
           /\ tuple' = o.tup
           /\ mem' = o.mem

First(pred) ==
    /\ pc = "call"
    /\ pred.p = "true" \/ Arithmetic(tuple)
    /\ Valued(first_f(pred, tuple, mem), [name |-> "first", pred |-> pred])
    /\ UNCHANGED <<tuple, mem>>

Find(value) ==
    /\ pc = "call"
    /\ Arithmetic(tuple)
    /\ Valued(find_f(value, tuple, mem), [name |-> "find", value |-> value])
    /\ UNCHANGED <<tuple, mem>>

\* a purely type-level computation with result t
Meta(t, name) ==
    /\ pc' = "done"
    /\ tres' = t
    /\ op' = name
    /\ UNCHANGED <<tuple, mem, arg, res, calls>>

MetaFirst(Pred) ==
    /\ pc = "call"
    /\ Meta(meta_first(Pred, KindsOf(tuple)), [name |-> "meta_first", pred |-> Pred])

MetaFind(T) ==
    /\ pc = "call"
    /\ Meta(meta_find(T, KindsOf(tuple)), [name |-> "meta_find", T |-> T])

MetaReduce(Fn) ==
    /\ pc = "call"
    /\ Meta(tuple_reduce_t(Fn, KindsOf(tuple)), [name |-> "meta_reduce", fn |-> Fn])

MetaFold(Fn, T) ==
    /\ pc = "call"
    /\ Meta(tuple_fold_t(Fn, T, KindsOf(tuple)),
            [name |-> "meta_fold", fn |-> Fn, init |-> T])

MetaCat(ts) ==
    /\ pc = "call"
    /\ Meta(tuple_cat_t(ts), [name |-> "meta_cat", ts |-> ts])

Map(fn) ==
    /\ pc = "call"
    /\ IF fn = "dbl" THEN References(tuple) ELSE Arithmetic(tuple)
    /\ \E o \in map_f(fn, tuple, mem) :
           /\ Valued(o, [name |-> "map", fn |-> fn])
           /\ tuple' = o.tup
           /\ mem' = o.mem

MetaMap(Fn) ==
    /\ pc = "call"
    /\ Meta(tuple_map_t(Fn, KindsOf(tuple)), [name |-> "meta_map", fn |-> Fn])

MetaFilter(Pred) ==
    /\ pc = "call"
    /\ Meta(tuple_filter_t(Pred, KindsOf(tuple)), [name |-> "meta_filter", pred |-> Pred])

MetaAny(Pred) ==
    /\ pc = "call"
    /\ Meta(any_v(Pred, KindsOf(tuple)), [name |-> "meta_any", pred |-> Pred])

MetaAll(Pred) ==
    /\ pc = "call"
    /\ Meta(all_v(Pred, KindsOf(tuple)), [name |-> "meta_all", pred |-> Pred])

\* a detection trait takes no tuple
MetaDetectedExact(T, Op, Args) ==
    /\ pc = "call"
    /\ tuple = <<>>
    /\ Meta(is_detected_exact(T, Op, Args),
            [name |-> "is_detected_exact", T |-> T, op |-> Op, args |-> Args])

\* both convertible traits of one instantiation
MetaDetectedConvertible(To, Op, Args) ==
    /\ pc = "call"
    /\ tuple = <<>>
    /\ Meta([value |-> is_detected_convertible(To, Op, Args),
             nothrow |-> is_detected_nothrow_convertible(To, Op, Args)],
            [name |-> "is_detected_convertible", To |-> To, op |-> Op,
             args |-> Args])

\* an index range takes no tuple
MetaRange(Start, Length) ==
    /\ pc = "call"
    /\ tuple = <<>>
    /\ Meta(make_index_range(Start, Length),
            [name |-> "make_index_range", start |-> Start, len |-> Length])

\* the info record of one call expression
MetaOpCall(Target, Args) ==
    /\ pc = "call"
    /\ tuple = <<>>
    /\ Meta(op_call(Target, Args),
            [name |-> "op_call", target |-> Target, args |-> Args])

\* the convertible queries of one operator: the has_op_ trait and the info
\* record of the same operands
MetaOperator(name, To, Operands) ==
    /\ pc = "call"
    /\ tuple = <<>>
    /\ Meta([has_op_convertible |-> has_op_convertible(name, To, Operands),
             info |-> op_info(name, Operands)],
            [name |-> "has_op_convertible", operator |-> name, To |-> To,
             operands |-> Operands])

Next ==
    \/ \E ns \in IdxLists(Len(tuple)) : Pick(ns)
    \/ Flip
    \/ \E N \in 0..MaxDup : Dup(N)
    \/ \E N \in 0..MaxLen : Skip(N)
    \/ \E N \in 0..MaxLen : Take(N)
    \/ \E Start \in 0..(MaxLen + 1), Length \in 0..MaxLen : Slice(Start, Length)
    \/ \E fn \in Fns : Reduce(fn)
    \/ \E fn \in Fns, init \in Inits : Fold(fn, init)
    \/ \E pred \in VPreds : First(pred)
    \/ \E value \in FindVals : Find(value)
    \/ \E Pred \in TPreds : MetaFirst(Pred)
    \/ \E T \in Kinds : MetaFind(T)
    \/ \E Fn \in TFns : MetaReduce(Fn)
    \/ \E Fn \in TFns, T \in Kinds : MetaFold(Fn, T)
    \/ \E ts \in CatInputs(KindsOf(tuple)) : MetaCat(ts)
    \/ \E fn \in UFns : Map(fn)
    \/ \E Fn \in TMaps : MetaMap(Fn)
    \/ \E Pred \in TPreds : MetaFilter(Pred)
    \/ \E Pred \in TPreds : MetaAny(Pred)
    \/ \E Pred \in TPreds : MetaAll(Pred)
    \/ \E T \in DetectExpected, Op \in DetectOps, Args \in DetectArgs :
           MetaDetectedExact(T, Op, Args)
    \/ \E To \in DetectTargets, Op \in DetectOps, Args \in DetectArgs :
           MetaDetectedConvertible(To, Op, Args)
    \/ \E Start \in 0..(MaxLen + 1), Length \in 0..MaxLen : MetaRange(Start, Length)
    \/ \E Target \in CallTargets, Args \in CallArgs : MetaOpCall(Target, Args)
    \/ \E name \in Catalog, To \in DetectTargets :
           \E Operands \in OperandLists(name) : MetaOperator(name, To, Operands)

Spec == Init /\ [][Next]_vars

--------------------------------------------------------------------------
\* The recursion of the implementations, one instantiation per step: op is
\* the instantiation at hand, with n its count or offset argument, t its
\* tuple of kinds, ns its index list, ts its list of tuples, tup the tuple
\* object, p its predicate template and pred its predicate object; calls is
\* the chain of instantiations that led to it.

NoFrame ==
    [name |-> "none", n |-> 0, t |-> <<>>, ns |-> <<>>, ts |-> <<>>,
     tup |-> <<>>, p |-> partial("none", ""), pred |-> VPred("none", 0)]

\* the inputs of the recursion: tuples of the int 1 and of references to b
RecElems ==
    {e \in Elems : \/ e.kind = "int" /\ e.val = 1
                   \/ e.kind = "int&" /\ e.addr = 2}

RecTuples == {t \in Tuples : \A i \in DOMAIN t : t[i] \in RecElems}

RecInit ==
    /\ pc = "call"
    /\ tuple \in RecTuples
    /\ mem = InitMem
    /\ arg = tuple
    /\ op = NoFrame
    /\ res = <<>>
    /\ tres = <<>>
    /\ calls = <<>>

\* the instantiations the aliases and functors start with on the tuple tup,
\* inside the documented domain: counts up to the length for skip and take,
\* indices below the length for pick, a non-empty tuple for reduce
Starts(tup) ==
    LET ks == KindsOf(tup)
        size == Len(tup)
    IN  {[NoFrame EXCEPT !.name = name, !.n = N, !.t = ks] :
            name \in {"tuple_dup_impl", "dup_f"}, N \in 0..MaxDup}
        \cup {[NoFrame EXCEPT !.name = name, !.n = N, !.t = ks] :
                name \in {"tuple_skip_impl", "tuple_take_impl"}, N \in 0..size}
        \cup {[NoFrame EXCEPT !.name = name, !.n = size, !.t = ks] :
                name \in {"fold_impl", "flip_f"}}
        \cup (IF size = 0 THEN {}
              ELSE {[NoFrame EXCEPT !.name = name, !.n = size, !.t = ks] :
                       name \in {"tuple_reduce_impl", "reduce_impl"}})
        \cup {[NoFrame EXCEPT !.name = "tuple_flip_impl", !.t = ks]}
        \cup {[NoFrame EXCEPT !.name = "tuple_filter_impl", !.n = size,
                              !.t = ks, !.p = Pred] : Pred \in TPreds}
        \cup {[NoFrame EXCEPT !.name = "meta::first_impl", !.t = ks,
                              !.p = Pred] : Pred \in TPreds}
        \cup {[NoFrame EXCEPT !.name = name, !.t = ks, !.ns = ns] :
                name \in {"tuple_pick_impl", "pick_f"}, ns \in IdxLists(size)}
        \cup {[NoFrame EXCEPT !.name = "tuple_cat_impl", !.ts = ts] :
                ts \in CatInputs(ks)}
        \cup {[NoFrame EXCEPT !.name = "tuple::first_impl", !.tup = tup,
                              !.pred = pred] : pred \in VPreds}

\* the abort case of the implementation is the one instantiated
Abort(f) ==
    CASE f.name \in {"tuple_dup_impl", "dup_f", "tuple_skip_impl",
                     "tuple_take_impl", "tuple_filter_impl", "fold_impl",
                     "flip_f"} -> f.n = 0
      [] f.name \in {"tuple_reduce_impl", "reduce_impl"} -> f.n = 1
      [] f.name = "tuple_flip_impl" -> f.t = <<>>
      [] f.name \in {"tuple_pick_impl", "pick_f"} -> f.ns = <<>>
      [] f.name = "tuple_cat_impl" -> Len(f.ts) <= 1
      [] f.name = "meta::first_impl" ->
             IF f.t = <<>> THEN TRUE ELSE PredValue(f.p, Head(f.t))
      [] f.name = "tuple::first_impl" ->
             IF Len(f.tup) <= f.n THEN TRUE
             ELSE PredHolds(f.pred, Content(f.tup[f.n + 1], InitMem))

\* as Inner, naming the instantiation itself
Inner_same(f) == f

\* the instantiation the recursive case of f names
Inner(f) ==
    CASE f.name \in {"tuple_dup_impl", "dup_f", "tuple_reduce_impl",
                     "tuple_filter_impl", "reduce_impl", "fold_impl",
                     "flip_f"} -> [f EXCEPT !.n = f.n - 1]
      [] f.name \in {"tuple_skip_impl", "tuple_take_impl"} ->
             [f EXCEPT !.n = f.n - 1, !.t = tuple_skip_one(f.t)]
      [] f.name = "tuple_flip_impl" -> [f EXCEPT !.t = Tail(f.t)]
      [] f.name \in {"tuple_pick_impl", "pick_f"} -> [f EXCEPT !.ns = Tail(f.ns)]
      [] f.name = "tuple_cat_impl" ->
             [f EXCEPT !.ts = <<f.ts[1] \o f.ts[2]>> \o SubSeq(f.ts, 3, Len(f.ts))]
      [] f.name = "meta::first_impl" ->
             [f EXCEPT !.n = f.n + 1, !.t = Tail(f.t)]
      [] f.name = "tuple::first_impl" -> [f EXCEPT !.n = f.n + 1]

\* the alias or functor instantiates its implementation
Instantiate(f) ==
    /\ pc = "call"
    /\ pc' = "rec"
    /\ op' = f
    /\ UNCHANGED <<tuple, mem, arg, res, tres, calls>>

\* the recursive case instantiates the next implementation
Recurse ==
    /\ pc = "rec"
    /\ ~Abort(op)
    /\ op' = Inner(op)
    /\ calls' = Append(calls, op)
    /\ UNCHANGED <<pc, tuple, mem, arg, res, tres>>

\* the abort case ends the recursion
AbortCase ==
    /\ pc = "rec"
    /\ Abort(op)
    /\ pc' = "done"
    /\ UNCHANGED <<op, tuple, mem, arg, res, tres, calls>>

RecNext ==
    \/ \E f \in Starts(tuple) : Instantiate(f)
    \/ Recurse
    \/ AbortCase

\* the compiler, and the running program, take the next step while one is left
RecSpec == RecInit /\ [][RecNext]_vars /\ WF_vars(RecNext)

--------------------------------------------------------------------------
\* What the structural operations are documented to select

StructuralOps == {"pick", "flip", "dup", "skip", "take", "slice"}

\* the operation was called inside its documented domain
InDomain == op.name = "slice" => op.start + op.len <= Len(arg)

ResultOf(names) == pc = "done" /\ op.name \in names /\ InDomain

\* the documented length of the result
ExpectedLen ==
    CASE op.name = "pick" -> Len(op.ns)
      [] op.name = "flip" -> Len(arg)
      [] op.name = "dup" -> op.n * Len(arg)
      [] op.name = "skip" -> Len(arg) - op.n
      [] op.name = "take" -> op.n
      [] op.name = "slice" -> op.len

\* the position (from 1) in the input that result position i (from 1) is
\* documented to select
SourcePos(i) ==
    CASE op.name = "pick" -> op.ns[i] + 1
      [] op.name = "flip" -> Len(arg) + 1 - i
      [] op.name = "dup" -> ((i - 1) % Len(arg)) + 1
      [] op.name = "skip" -> op.n + i
      [] op.name = "take" -> i
      [] op.name = "slice" -> op.start + i

--------------------------------------------------------------------------
\* C1: inside the documented domain, the kind sequence of the value-level
\* result of pick, flip, dup, skip, take and slice is exactly the kind
\* sequence the type-level operation computes for the same input kinds and
\* parameters (same length, same kind at every position).
C1_KindsAgree ==
    ResultOf(StructuralOps) =>
        /\ res # IllformedV
        /\ tres # Illformed
        /\ KindsOf(res) = tres

\* dup<2> of a tuple of an owned value, a mutable and a transient reference
C1_Witness ==
    /\ ResultOf({"dup"})
    /\ op.n = 2
    /\ KindsOf(arg) = <<"uptr", "int&", "int&&">>
    /\ tres = <<"uptr", "int&", "int&&", "uptr", "int&", "int&&">>
    /\ KindsOf(res) = tres

\* C2: every result element selected from a reference element is that same
\* reference: it has the reference kind and the address of the source
\* element, and the referenced storage is neither copied nor written;
\* picking one index twice yields two aliases of one storage.
C2_RefsAlias ==
    ResultOf(StructuralOps) =>
        /\ mem = InitMem
        /\ Len(res) = ExpectedLen
        /\ \A i \in 1..Len(res) :
               IsRef(arg[SourcePos(i)].kind) =>
                   /\ res[i].kind = arg[SourcePos(i)].kind
                   /\ res[i].addr = arg[SourcePos(i)].addr

\* pick<1, 1> of forward_as_tuple(move(a), move(b))
C2_Witness ==
    /\ ResultOf({"pick"})
    /\ op.ns = <<1, 1>>
    /\ KindsOf(arg) = <<"int&&", "int&&">>
    /\ arg[1].addr = 1 /\ arg[2].addr = 2
    /\ res[1].addr = 2 /\ res[2].addr = 2

\* C3: pick<idx_0, ..., idx_(k-1)> returns a sequence of length k whose
\* i-th element is seq[idx_i], indices may repeat or be omitted and the
\* empty index list yields the empty sequence; for the type-level
\* tuple_pick_t and for the value-level pick.
C3_PickSelects ==
    ResultOf({"pick"}) =>
        /\ Len(res) = Len(op.ns)
        /\ Len(tres) = Len(op.ns)
        /\ \A i \in 1..Len(op.ns) :
               /\ tres[i] = arg[op.ns[i] + 1].kind
               /\ res[i] = arg[op.ns[i] + 1]

--------------------------------------------------------------------------
\* Reference definitions the claims are stated with

Min(S) == CHOOSE x \in S : \A y \in S : x <= y

\* the binary functions as mathematical functions
Bin(fn, x, y) ==
    CASE fn = "minus" -> x - y
      [] fn = "lin" -> 2 * x + y

\* fn(...fn(fn(acc, xs[1]), xs[2])..., xs[n]), accumulated from the left
RECURSIVE FoldLeft(_, _, _)
FoldLeft(fn, acc, xs) ==
    IF xs = <<>> THEN acc
    ELSE FoldLeft(fn, Bin(fn, acc, Head(xs)), Tail(xs))

\* Fn<...Fn<Fn<acc, ks[1]>, ks[2]>..., ks[n]>, accumulated from the left
RECURSIVE NestLeft(_, _, _)
NestLeft(Fn, acc, ks) ==
    IF ks = <<>> THEN acc
    ELSE NestLeft(Fn, Inst(Fn, acc, Head(ks)), Tail(ks))

\* the optional index documented for the set M of matching indices
SmallestOf(M) == IF M = {} THEN nullopt ELSE optional(Min(M))

--------------------------------------------------------------------------
\* C4: for start + len <= length(S), slice(start, len, S) equals
\* take(len, skip(start, S)), for the type-level form and for the
\* value-level form, which picks the index range start .. start+len-1.
C4_SliceIsTakeOfSkip ==
    ResultOf({"slice"}) =>
        /\ tres = tuple_take_t(op.len, tuple_skip_t(op.start, KindsOf(arg)))
        /\ \A s \in skip_f(op.start, arg) :
               /\ s.res # IllformedV
               /\ \A r \in take_f(op.len, s.res) : r.res = res

\* slice<1, 2> of a 3-tuple whose middle element is an owned unique_ptr
C4_Witness ==
    /\ ResultOf({"slice"})
    /\ op.start = 1 /\ op.len = 2
    /\ Len(arg) = 3
    /\ arg[2].kind = "uptr" /\ IsRef(arg[3].kind)
    /\ res = <<arg[2], arg[3]>>

\* C5: fold(fn, init, S) equals reduce(fn, concat(make(init), S)), that is
\* fn(...fn(fn(init, S[0]), S[1])..., S[n-1]); for the empty S it returns
\* init unchanged and fn is never called.
C5_FoldIsReduceOfCons ==
    ResultOf({"fold"}) =>
        /\ res = reduce_f(op.fn, <<op.init>> \o arg, InitMem).ret
        /\ op.fn \in PureFns /\ arg # <<>> =>
               res = Value(FoldLeft(op.fn, Content(op.init, InitMem),
                                    Contents(arg, InitMem)))
        /\ arg = <<>> => res = op.init /\ calls = <<>>

\* a fold of three elements with distinct roles for every position
C5_Witness ==
    /\ ResultOf({"fold"})
    /\ op.fn = "lin"
    /\ Contents(arg, InitMem) = <<1, 2, 1>>
    /\ op.init.val = 2
    /\ res.val = 16 + 4 + 4 + 1
    /\ Len(calls) = 3

\* C6: for length n >= 1, reduce(fn, S) is the left-associative
\* fn(...fn(fn(S[0], S[1]), S[2])..., S[n-1]) (type-level: the nested
\* instantiation of Fn); for n = 1 it is S[0] verbatim and fn is not called.
C6_ReduceLeftAssoc ==
    /\ ResultOf({"reduce"}) /\ Len(arg) = 1 => res = arg[1] /\ calls = <<>>
    /\ ResultOf({"reduce"}) /\ Len(arg) > 1 =>
           /\ op.fn \in PureFns =>
                  res = Value(FoldLeft(op.fn, Content(arg[1], InitMem),
                                       Tail(Contents(arg, InitMem))))
           /\ Len(calls) = Len(arg) - 1
           /\ calls[1].fst = arg[1]
           /\ \A i \in 1..Len(calls) : calls[i].snd = arg[i + 1]
    /\ ResultOf({"meta_reduce"}) /\ Len(arg) >= 1 =>
           tres = NestLeft(op.fn, arg[1].kind, Tail(KindsOf(arg)))

\* reduce(std::minus{}, (2, 1, 2)) = (2 - 1) - 2, not 2 - (1 - 2)
C6_Witness ==
    /\ ResultOf({"reduce"})
    /\ op.fn = "minus"
    /\ Contents(arg, InitMem) = <<2, 1, 2>>
    /\ res.val = -1

\* C7: first(pred, S) returns the smallest index whose element satisfies
\* pred and "no match" exactly when no element does; value-level (the
\* optional index) and type-level (::value and ::index).
C7_FirstIsSmallest ==
    /\ ResultOf({"first"}) =>
           res = SmallestOf({i \in 0..(Len(arg) - 1) :
                                PredHolds(op.pred, Content(arg[i + 1], InitMem))})
    /\ ResultOf({"meta_first"}) =>
           LET M == {i \in 0..(Len(arg) - 1) : PredValue(op.pred, arg[i + 1].kind)}
           IN  /\ tres.value = (M # {})
               /\ M # {} => tres.index = Min(M)

\* first(x > 1) on contents (1, 2, 2): two matches, the smaller one returned
C7_Witness ==
    /\ ResultOf({"first"})
    /\ op.pred = VPred("gt", 1)
    /\ Contents(arg, InitMem) = <<1, 2, 2>>
    /\ res = optional(1)

\* C8: find(v, S) returns the smallest index i with S[i] == v or "no match"
\* when v does not occur; its result equals first(x => x == v, S);
\* type-level find matches by exact kind equality.
C8_FindIsSmallest ==
    /\ ResultOf({"find"}) =>
           /\ res = SmallestOf({i \in 0..(Len(arg) - 1) :
                                   Content(arg[i + 1], InitMem) = op.value})
           /\ res = first_f(VPred("eq", op.value), arg, InitMem).ret
    /\ ResultOf({"meta_find"}) =>
           LET M == {i \in 0..(Len(arg) - 1) : arg[i + 1].kind = op.T}
           IN  /\ tres.value = (M # {})
               /\ M # {} => tres.index = Min(M)

\* find(2, (1, 2, 2)) = 1
C8_Witness ==
    /\ ResultOf({"find"})
    /\ op.value = 2
    /\ Contents(arg, InitMem) = <<1, 2, 2>>
    /\ res = optional(1)

\* C9: for 0 <= n <= length(S), skip(n, S) has length length(S) - n and its
\* i-th element is S[n + i]; skip(0, S) = S and skip(length(S), S) is
\* empty; type-level and value-level.
C9_SkipDropsFront ==
    ResultOf({"skip"}) =>
        /\ Len(res) = Len(arg) - op.n
        /\ Len(tres) = Len(arg) - op.n
        /\ \A i \in 1..(Len(arg) - op.n) :
               /\ res[i] = arg[op.n + i]
               /\ tres[i] = arg[op.n + i].kind
        /\ op.n = 0 => res = arg /\ tres = KindsOf(arg)
        /\ op.n = Len(arg) => res = <<>> /\ tres = <<>>

\* skip<1> of a 3-tuple with three different elements
C9_Witness ==
    /\ ResultOf({"skip"})
    /\ op.n = 1
    /\ Len(arg) = 3
    /\ arg[1] # arg[2] /\ arg[2] # arg[3] /\ arg[1] # arg[3]
    /\ res = <<arg[2], arg[3]>>

\* C10: for 0 <= n <= length(S), take(n, S) has length n and its i-th
\* element is S[i]; take(0, S) is empty and take(length(S), S) = S;
\* type-level and value-level.
C10_TakeKeepsFront ==
    ResultOf({"take"}) =>
        /\ Len(res) = op.n
        /\ Len(tres) = op.n
        /\ \A i \in 1..op.n :
               /\ res[i] = arg[i]
               /\ tres[i] = arg[i].kind
        /\ op.n = 0 => res = <<>> /\ tres = <<>>
        /\ op.n = Len(arg) => res = arg /\ tres = KindsOf(arg)

\* take<2> of a 3-tuple with three different elements
C10_Witness ==
    /\ ResultOf({"take"})
    /\ op.n = 2
    /\ Len(arg) = 3
    /\ arg[1] # arg[2] /\ arg[2] # arg[3] /\ arg[1] # arg[3]
    /\ res = <<arg[1], arg[2]>>

--------------------------------------------------------------------------
\* C11: reverse(S) (tuple_flip_t / flip) has the length n of S and its i-th
\* element is S[n-1-i]; a sequence of length 0 or 1 is returned unchanged
\* and reverse(reverse(S)) = S.
C11_FlipReverses ==
    ResultOf({"flip"}) =>
        /\ Len(res) = Len(arg)
        /\ Len(tres) = Len(arg)
        /\ \A i \in 1..Len(arg) :
               /\ res[i] = arg[Len(arg) + 1 - i]
               /\ tres[i] = arg[Len(arg) + 1 - i].kind
        /\ Len(arg) <= 1 => res = arg /\ tres = KindsOf(arg)
        /\ tuple_flip_t(tres) = KindsOf(arg)
        /\ \A r \in flip_f(res, Len(res)) : r.res = arg

\* flip of an owned unique_ptr, a mutable reference and an int
C11_Witness ==
    /\ ResultOf({"flip"})
    /\ KindsOf(arg) = <<"uptr", "int&", "int">>
    /\ res = <<arg[3], arg[2], arg[1]>>
    /\ tres = <<"int", "int&", "uptr">>

--------------------------------------------------------------------------
\* C12: for every count n >= 0 and every S, owned values included,
\* dup(n, S) is S concatenated with itself n times: it has length
\* n * length(S) and its element at position j is S[j mod length(S)];
\* dup(0, S) is empty and dup(1, S) = S.
C12_DupRepeats ==
    ResultOf({"dup"}) =>
        /\ Len(res) = op.n * Len(arg)
        /\ Len(tres) = op.n * Len(arg)
        /\ \A j \in 1..Len(res) :
               /\ res[j] = arg[((j - 1) % Len(arg)) + 1]
               /\ tres[j] = arg[((j - 1) % Len(arg)) + 1].kind
        /\ op.n = 0 => res = <<>>
        /\ op.n = 1 => res = arg

--------------------------------------------------------------------------
\* all elements of the first sequence in order, then all of the second, ...
RECURSIVE Flatten(_)
Flatten(ts) == IF ts = <<>> THEN <<>> ELSE Head(ts) \o Flatten(Tail(ts))

\* C13: tuple_cat_t of k >= 0 sequences is their flattening; zero inputs
\* yield the empty sequence, an empty input contributes nothing
\* (concat(empty, S) = S = concat(S, empty)) and grouping does not matter
\* (concat(concat(S, T), U) = concat(S, concat(T, U))).
C13_CatFlattens ==
    ResultOf({"meta_cat"}) =>
        /\ tres = Flatten(op.ts)
        /\ op.ts = <<>> => tres = <<>>
        /\ \A i \in DOMAIN op.ts :
               /\ tuple_cat_t(<<<<>>, op.ts[i]>>) = op.ts[i]
               /\ tuple_cat_t(<<op.ts[i], <<>>>>) = op.ts[i]
        /\ Len(op.ts) = 3 =>
               /\ tuple_cat_t(<<tuple_cat_t(<<op.ts[1], op.ts[2]>>), op.ts[3]>>) = tres
               /\ tuple_cat_t(<<op.ts[1], tuple_cat_t(<<op.ts[2], op.ts[3]>>)>>) = tres

\* tuple_cat_t<std::tuple<int>, std::tuple<int&>, std::tuple<uptr>>
C13_Witness ==
    /\ ResultOf({"meta_cat"})
    /\ op.ts = <<<<"int">>, <<"int&">>, <<"uptr">>>>
    /\ tres = <<"int", "int&", "uptr">>

--------------------------------------------------------------------------
\* the call of fn on the element at position i (from 1)
CallAt(i) == CHOOSE c \in {calls[j] : j \in DOMAIN calls} : c.at = i - 1

\* C14: map(fn, S) has the length of S and its i-th element is fn(S[i]):
\* fn is called once on every element and result position i holds what the
\* call on S[i] returned (twice the content for the doubling functions);
\* tuple_map_t gives Fn<t_i> at every position; the empty sequence maps to
\* the empty sequence.
C14_MapApplies ==
    /\ ResultOf({"map"}) =>
           /\ Len(res) = Len(arg)
           /\ Len(calls) = Len(arg)
           /\ \A i \in 1..Len(arg) :
                  /\ \E j \in 1..Len(calls) : calls[j].at = i - 1
                  /\ CallAt(i).x = arg[i]
                  /\ res[i] = CallAt(i).ret
                  /\ op.fn = "times2" =>
                         res[i] = Value(2 * Content(arg[i], InitMem))
                  /\ op.fn = "dbl" => res[i] = arg[i]
           /\ arg = <<>> => res = <<>>
    /\ ResultOf({"meta_map"}) =>
           /\ Len(tres) = Len(arg)
           /\ \A i \in 1..Len(arg) : tres[i] = MapInst(op.fn, arg[i].kind)
           /\ arg = <<>> => tres = <<>>

\* map(std::bind(std::multiplies{}, _1, 2), (1, 2, 1)) = (2, 4, 2), with
\* the last element mapped first
C14_Witness ==
    /\ ResultOf({"map"})
    /\ op.fn = "times2"
    /\ Contents(arg, InitMem) = <<1, 2, 1>>
    /\ calls[1].at = 2
    /\ res = <<Value(2), Value(4), Value(2)>>

--------------------------------------------------------------------------
\* the memory after x += y for every y of ys in order, all of them references
RECURSIVE AccInto(_, _, _)
AccInto(m, x, ys) ==
    IF ys = <<>> THEN m
    ELSE AccInto([m EXCEPT ![x.addr] = m[x.addr] + m[Head(ys).addr]], x, Tail(ys))

RECURSIVE Pow2(_)
Pow2(n) == IF n = 0 THEN 1 ELSE 2 * Pow2(n - 1)

\* the memory in which exactly the storage of the elements of ys was zeroed
Zeroed(ys) ==
    [a \in Addrs |-> IF \E i \in DOMAIN ys : ys[i].addr = a THEN 0 ELSE InitMem[a]]

\* C15: for a sequence of references, map, reduce and fold hand every
\* element to fn as the reference it is; what fn writes through an argument
\* lands in the storage of that element, a reference fn returns is carried
\* into the result unchanged (map: result element i aliases source element
\* i; reduce and fold with fn returning its first argument: the result
\* aliases element 0, respectively init), and nothing else is modified: the
\* input tuple and every storage fn does not write keep their content.
C15_RefsReachFn ==
    /\ ResultOf({"map"}) /\ References(arg) =>
           /\ tuple = arg
           /\ \A i \in 1..Len(arg) : CallAt(i).x = arg[i]
           /\ op.fn = "times2" => mem = InitMem
           /\ op.fn = "dbl" =>
                  /\ \A i \in 1..Len(arg) : res[i] = arg[i]
                  /\ \A a \in Addrs :
                         mem[a] = InitMem[a] *
                             Pow2(Cardinality({i \in 1..Len(arg) : arg[i].addr = a}))
    /\ ResultOf({"reduce"}) /\ References(arg) /\ Len(arg) >= 1 =>
           /\ tuple = arg
           /\ \A i \in 1..Len(calls) : calls[i].snd = arg[i + 1]
           /\ op.fn \in PureFns => mem = InitMem
           /\ op.fn = "acc" =>
                  /\ res = arg[1]
                  /\ \A i \in 1..Len(calls) : calls[i].fst = arg[1]
                  /\ mem = AccInto(InitMem, arg[1], Tail(arg))
           /\ op.fn = "drain" => mem = Zeroed(Tail(arg))
    /\ ResultOf({"fold"}) /\ References(arg) =>
           /\ tuple = arg
           /\ \A i \in 1..Len(calls) : calls[i].snd = arg[i]
           /\ op.fn \in PureFns => mem = InitMem
           /\ op.fn = "acc" /\ arg # <<>> =>
                  /\ res = op.init
                  /\ mem = AccInto(InitMem, op.init, arg)
           /\ op.fn = "drain" => mem = Zeroed(arg)

\* the tests' reduce over forward_as_tuple(move(a), move(b), move(a)):
\* a = (1 + 2) + 3, b untouched, the result is a itself
C15_Witness ==
    /\ ResultOf({"reduce"})
    /\ op.fn = "acc"
    /\ KindsOf(arg) = <<"int&&", "int&&", "int&&">>
    /\ arg[1].addr = 1 /\ arg[2].addr = 2 /\ arg[3].addr = 1
    /\ res = arg[1]
    /\ mem = <<6, 2>>

\* the tests' map over references: every variable doubled, every result
\* element the source reference
C15_WitnessMap ==
    /\ ResultOf({"map"})
    /\ op.fn = "dbl"
    /\ KindsOf(arg) = <<"int&", "int&&">>
    /\ arg[1].addr = 1 /\ arg[2].addr = 2
    /\ res = arg
    /\ mem = <<2, 4>>

--------------------------------------------------------------------------
\* the j-th smallest (from 1) member of the set M of positions
NthOf(M, j) == CHOOSE x \in M : Cardinality({y \in M : y < x}) = j - 1

\* C16: tuple_filter_t<Pred, S> is the subsequence of S of exactly the
\* elements whose kind satisfies Pred, in their original relative order:
\* nothing added, duplicated or reordered; the empty sequence filters to
\* the empty sequence.
C16_FilterKeepsMatches ==
    ResultOf({"meta_filter"}) =>
        LET M == {i \in 1..Len(arg) : PredValue(op.pred, arg[i].kind)}
        IN  /\ Len(tres) = Cardinality(M)
            /\ \A j \in 1..Len(tres) : tres[j] = arg[NthOf(M, j)].kind
            /\ arg = <<>> => tres = <<>>

\* tuple_filter_t<std::is_reference, std::tuple<int&&, int, int&>>
C16_Witness ==
    /\ ResultOf({"meta_filter"})
    /\ op.pred = partial("is_reference", "")
    /\ KindsOf(arg) = <<"int&&", "int", "int&">>
    /\ tres = <<"int&&", "int&">>

--------------------------------------------------------------------------
\* C17: no structural operation (value-level pick, flip, dup, skip, take,
\* slice) changes its input: after the call the input sequence has the same
\* length and at every position the same element content as before, for
\* every ownership category, owned values included, also when an element is
\* selected more than once.
C17_InputUnchanged ==
    ResultOf(StructuralOps) =>
        /\ Len(tuple) = Len(arg)
        /\ \A i \in 1..Len(arg) : tuple[i] = arg[i]
        /\ mem = InitMem

--------------------------------------------------------------------------
\* C18: slice(start, 0, seq) is the empty sequence whatever start is, also
\* beyond the length of seq: both the type-level tuple_slice_t<start, 0, seq>
\* and the value-level slice<start, 0>(seq) produce the empty sequence.
C18_EmptySliceAnyStart ==
    pc = "done" /\ op.name = "slice" /\ op.len = 0 =>
        /\ res = <<>>
        /\ tres = <<>>

\* C18 (amended): slice<start, 0>(seq) is the empty sequence whatever start
\* is, also beyond the length of seq, and tuple_slice_t<start, 0, seq> is the
\* empty sequence for every start up to the length of seq.
C18_EmptySliceInRange ==
    pc = "done" /\ op.name = "slice" /\ op.len = 0 =>
        /\ res = <<>>
        /\ op.start <= Len(arg) => tres = <<>>

\* an empty slice in the middle of a tuple
C18_Witness ==
    /\ pc = "done" /\ op.name = "slice" /\ op.len = 0
    /\ 0 < op.start /\ op.start < Len(arg)
    /\ res = <<>> /\ tres = <<>>

--------------------------------------------------------------------------
\* C19: any(Pred, Args...) is true iff at least one Args_i satisfies Pred
\* and all(Pred, Args...) is true iff every Args_i satisfies Pred; over the
\* empty argument list any is false and all is true.
C19_AnyAll ==
    /\ ResultOf({"meta_any"}) =>
           /\ tres = (\E i \in 1..Len(arg) : PredValue(op.pred, arg[i].kind))
           /\ arg = <<>> => tres = FALSE
    /\ ResultOf({"meta_all"}) =>
           /\ tres = (\A i \in 1..Len(arg) : PredValue(op.pred, arg[i].kind))
           /\ arg = <<>> => tres = TRUE

\* any_v<tautology> over no argument is false
C19_Witness ==
    /\ ResultOf({"meta_any"})
    /\ op.pred = partial("tautology", "")
    /\ arg = <<>>
    /\ tres = FALSE

--------------------------------------------------------------------------
\* C20: for every kind T, every operation Op and every operand list Args
\* (zero operands included), is_detected_exact(T, Op, Args...) is true iff
\* instantiating Op with Args is well-formed and its result kind is exactly
\* T; it is false for every T whenever the instantiation is not well-formed.
C20_DetectedExact ==
    ResultOf({"is_detected_exact"}) =>
        /\ tres = (/\ OpInst(op.op, op.args) # "ill-formed"
                   /\ OpInst(op.op, op.args) = op.T)
        /\ OpInst(op.op, op.args) = "ill-formed" => tres = FALSE

--------------------------------------------------------------------------
\* the result kind converts to To, as the language defines conversion
ConvertsTo(From, To) ==
    \/ From = To /\ From \in {"int", "char", "void"}
    \/ From \in {"int", "char"} /\ To \in {"int", "char", "Y"}

\* C21: is_detected_convertible(To, Op, Args...) is true iff instantiating Op
\* with Args is well-formed and its result kind converts to To; it is false
\* for every To whenever the instantiation is not well-formed, and
\* is_detected_nothrow_convertible is true only if is_detected_convertible is.
C21_DetectedConvertible ==
    ResultOf({"is_detected_convertible"}) =>
        /\ tres.value = (/\ OpInst(op.op, op.args) # "ill-formed"
                         /\ ConvertsTo(OpInst(op.op, op.args), op.To))
        /\ OpInst(op.op, op.args) = "ill-formed" => ~tres.value
        /\ tres.nothrow => tres.value

--------------------------------------------------------------------------
\* C22: make_index_range<start, length> is the index list
\* (start, start + 1, ..., start + length - 1), the list (0, ..., length - 1)
\* with start added to every element, length and order kept; length 0
\* yields the empty list for every start.
C22_IndexRange ==
    ResultOf({"make_index_range"}) =>
        /\ Len(tres) = op.len
        /\ \A i \in 1..op.len : tres[i] = op.start + (i - 1)
        /\ tres = shift_index_sequence_t(op.start, [i \in 1..op.len |-> i - 1])
        /\ op.len = 0 => tres = <<>>

\* make_index_range<3, 3> = std::index_sequence<3, 4, 5>
C22_Witness ==
    /\ ResultOf({"make_index_range"})
    /\ op.start = 3 /\ op.len = 3
    /\ tres = <<3, 4, 5>>

--------------------------------------------------------------------------
\* C23: op_call<Target, Args...>::is_detected is true iff calling a Target
\* with arguments Args... is well-formed, whatever the call produces (void
\* or not) and for every number of arguments; detected or not, target_type
\* is Target, argument_types is Args... and argument_count is its length.
C23_OpCall ==
    ResultOf({"op_call"}) =>
        /\ tres.well_formed
        /\ tres.is_detected = (call_t(op.target, op.args) # "ill-formed")
        /\ tres.target_type = op.target
        /\ tres.argument_types = op.args
        /\ tres.argument_count = Len(op.args)

--------------------------------------------------------------------------
\* the result kind of the operator on the operands, "ill-formed" if none
OperatorResult ==
    OpInst(op.operator \o "_t", Defaulted(op.operator, op.operands))

\* C24: an operator's convertible query is true iff the operator is
\* well-formed for the operands and its result kind converts to To
\* (direction result -> To); for has_op_convertible_<name> and for the info
\* record's is_convertible<To>.
C24_OperatorConvertible ==
    ResultOf({"has_op_convertible"}) =>
        LET expected == /\ OperatorResult # "ill-formed"
                        /\ ConvertsTo(OperatorResult, op.To)
        IN  /\ tres.has_op_convertible = expected
            /\ tres.info.is_convertible[op.To] = expected

--------------------------------------------------------------------------
\* the remaining length or count of the instantiation at hand
Remaining(f) ==
    CASE f.name \in {"tuple_dup_impl", "dup_f", "tuple_skip_impl",
                     "tuple_take_impl", "tuple_filter_impl", "fold_impl",
                     "flip_f", "tuple_reduce_impl", "reduce_impl"} -> f.n
      [] f.name \in {"tuple_pick_impl", "pick_f"} -> Len(f.ns)
      [] f.name = "tuple_cat_impl" -> Len(f.ts)
      [] f.name = "tuple::first_impl" -> Len(f.tup) - f.n
      [] OTHER -> Len(f.t)

\* C25: inside its documented domain every operation of the algebra
\* terminates: each recursive step strictly decreases the remaining length
\* or count, which never falls below zero, and the abort case is reached.
C25_Terminates ==
    /\ [][pc = "rec" /\ pc' = "rec" =>
            /\ Remaining(op') < Remaining(op)
            /\ Remaining(op') >= 0]_vars
    /\ <>(pc = "done")

\* tuple_take_impl<3, Tuple> reaches tuple_take_impl<0, std::tuple<>> after
\* three recursive cases
C25_Witness ==
    /\ pc = "done"
    /\ op.name = "tuple_take_impl" /\ op.n = 0
    /\ Len(calls) = 3 /\ calls[1].n = 3

--------------------------------------------------------------------------
\* C26: first invokes pred on the elements in strictly increasing index
\* order from index 0 and stops at the first match: exactly once on every
\* element up to and including the returned index and on none behind it,
\* and exactly once on every element when nothing matches.
C26_FirstCallsInOrder ==
    ResultOf({"first"}) =>
        LET tested == IF res.has THEN res.value + 1 ELSE Len(arg)
        IN  /\ Len(calls) = tested
            /\ \A i \in 1..Len(calls) : calls[i] = i - 1
            /\ res.has => \A i \in 1..Len(calls) : calls[i] <= res.value

\* first([](auto&& x) { return x == 2; }, make_tuple(1, 2, 1)) tests the
\* elements 0 and 1 and leaves element 2 alone
C26_Witness ==
    /\ ResultOf({"first"})
    /\ op.pred = VPred("eq", 2)
    /\ Contents(arg, InitMem) = <<1, 2, 1>>
    /\ res = optional(1)
    /\ calls = <<0, 1>>

--------------------------------------------------------------------------
\* the memory the k-th recorded call of fn starts with, and what that call
\* returns, replayed from the recorded arguments
RECURSIVE MemBefore(_, _)
MemBefore(fn, k) ==
    IF k = 1 THEN InitMem
    ELSE ApplyFn(fn, calls[k - 1].fst, calls[k - 1].snd, MemBefore(fn, k - 1)).mem

ReturnOf(fn, k) == ApplyFn(fn, calls[k].fst, calls[k].snd, MemBefore(fn, k)).ret

\* C27: on a tuple of length n, reduce (n >= 1) invokes fn exactly n - 1
\* times and fold exactly n times; the k-th invocation receives the result
\* of the one before as its first argument (the first one seq[0] for
\* reduce, init for fold) and the next element in increasing index order
\* as its second; every element is handed to fn at most once.
C27_CallChain ==
    /\ ResultOf({"reduce"}) /\ Len(arg) >= 1 =>
           /\ Len(calls) = Len(arg) - 1
           /\ \A k \in 1..Len(calls) :
                  /\ calls[k].at = k
                  /\ calls[k].snd = arg[k + 1]
                  /\ calls[k].fst = IF k = 1 THEN arg[1]
                                    ELSE ReturnOf(op.fn, k - 1)
    /\ ResultOf({"fold"}) =>
           /\ Len(calls) = Len(arg)
           /\ \A k \in 1..Len(calls) :
                  /\ calls[k].at = k - 1
                  /\ calls[k].snd = arg[k]
                  /\ calls[k].fst = IF k = 1 THEN op.init
                                    ELSE ReturnOf(op.fn, k - 1)
    /\ ResultOf({"reduce", "fold"}) =>
           \A j, k \in 1..Len(calls) : j # k => calls[j].at # calls[k].at

\* fold(x => 2x + y, 2, (1, 2, 1)): fn(2, 1) = 5, fn(5, 2) = 12, fn(12, 1)
C27_Witness ==
    /\ ResultOf({"fold"})
    /\ op.fn = "lin"
    /\ op.init = Value(2)
    /\ Contents(arg, InitMem) = <<1, 2, 1>>
    /\ Len(calls) = 3
    /\ calls[2].fst = Value(5) /\ calls[3].fst = Value(12)
    /\ calls[3].at = 2

--------------------------------------------------------------------------
\* C28: inside the documented domains (skip: n <= length, take:
\* n <= length, slice: start + len <= length) every index that skip, take
\* and slice hand to pick is below the length of the tuple, the index list
\* is strictly increasing by steps of 1 and has length - n, n and len
\* entries respectively; no element outside the tuple is accessed.
C28_PickIndicesInRange ==
    ResultOf({"skip", "take", "slice"}) =>
        /\ Len(op.idx) = CASE op.name = "skip" -> Len(arg) - op.n
                           [] op.name = "take" -> op.n
                           [] op.name = "slice" -> op.len
        /\ \A i \in 1..Len(op.idx) : op.idx[i] \in 0..(Len(arg) - 1)
        /\ \A i \in 1..(Len(op.idx) - 1) : op.idx[i + 1] = op.idx[i] + 1
        /\ res # IllformedV
        /\ \A i \in 1..Len(op.idx) : res[i] = arg[op.idx[i] + 1]

\* skip<1> of a 3-tuple hands the indices 1, 2 to pick
C28_Witness ==
    /\ ResultOf({"skip"})
    /\ op.n = 1 /\ Len(arg) = 3
    /\ op.idx = <<1, 2>>
    /\ res = <<arg[2], arg[3]>>

--------------------------------------------------------------------------
\* the predicate template a type-level search was instantiated with
SearchedWith == IF op.name = "meta_find" THEN partial("is_same", op.T) ELSE op.pred

\* C29: when no element of Tuple satisfies Pred, first<Pred, Tuple> (and
\* find) has ::value false and ::index equal to the length of Tuple (0 for
\* the empty tuple); when one does, ::value is true and ::index is below
\* the length. So ::value is true exactly when ::index < length(Tuple).
C29_NoMatchIndexIsLength ==
    ResultOf({"meta_first", "meta_find"}) =>
        LET matched == \E i \in 1..Len(arg) : PredValue(SearchedWith, arg[i].kind)
        IN  /\ ~matched => tres.value = FALSE /\ tres.index = Len(arg)
            /\ matched => tres.value = TRUE /\ tres.index < Len(arg)
            /\ tres.value <=> tres.index < Len(arg)
            /\ arg = <<>> => tres = index_helper(FALSE, 0)

\* first<contradiction, Tuple> on a 3-tuple: ::value false, ::index 3
C29_Witness ==
    /\ ResultOf({"meta_first"})
    /\ op.pred = partial("contradiction", "")
    /\ Len(arg) = 3
    /\ tres = index_helper(FALSE, 3)

--------------------------------------------------------------------------
\* C30: reduce on a tuple of length 0 is rejected by the assertion
\* "0-Tuple is irreducible!": for every fn it yields no result value and
\* never invokes fn (nor touches anything else).
C30_EmptyReduceRejected ==
    ResultOf({"reduce"}) /\ arg = <<>> =>
        /\ res = IllformedV[1]
        /\ calls = <<>>
        /\ mem = InitMem
        /\ tuple = <<>>

\* reduce(std::minus{}, std::tuple<>{}) does not compile
C30_Witness ==
    /\ ResultOf({"reduce"})
    /\ arg = <<>>
    /\ op.fn = "minus"
    /\ res.kind = "ill-formed"

====
